---- MODULE Spec2Model ----
(***************************************************************************)
(* The Auth + CORS gateway of webdav-server/server.js: start-up (data      *)
(* directory, engine construction, listen) and the Express middleware      *)
(* chain a request passes through (CORS, logging, /api authentication,     *)
(* static files, /api WebDAV mount, React fallback, Express's final        *)
(* handler), the items the embedded WebDAV engine stores, and the React    *)
(* client of webdav-client/src/App.js with its requests in flight.         *)
(* Spec is the gateway answering arbitrary requests step by step;          *)
(* SpecClient is the client talking to a running gateway.                  *)
(*                                                                         *)
(* Strings are sequences of tokens.  A URL path is a sequence over         *)
(* PathTokens, so <<"/","api","foo">> is "/apifoo" and                     *)
(* <<"/","api","/","foo">> is "/api/foo".  The text decoded from the       *)
(* base64 word of an Authorization header is a sequence over Bytes, where  *)
(* "U" stands for the bytes of 'WebDavDemo', "P" for the bytes of          *)
(* 'WebDavPassword', ":" for a colon, and "Uhi" / "Phi" for the same bytes *)
(* with the high bit of one byte set.                                      *)
(***************************************************************************)
EXTENDS Integers, Sequences, FiniteSets, TLC

VARIABLES pc, dataDirExists, createdDataDir, engine, NODE_ENV,
          req, url, stage, res, console, thrown, engineUrl,
          firstDecision, firstAcao,
          store,
          clientEnv, host, isAuthenticated, defaultAuthorization,
          localStorage, files, status, selectedFile, folderName,
          inflight, issued, started, error, lastRefresh

vars == <<pc, dataDirExists, createdDataDir, engine, NODE_ENV,
          req, url, stage, res, console, thrown, engineUrl,
          firstDecision, firstAcao,
          store,
          clientEnv, host, isAuthenticated, defaultAuthorization,
          localStorage, files, status, selectedFile, folderName,
          inflight, issued, started, error, lastRefresh>>

startupVars == <<pc, dataDirExists, createdDataDir, engine, NODE_ENV>>

\* the state of the React client (webdav-client/src/App.js)
clientVars == <<clientEnv, host, isAuthenticated, defaultAuthorization,
                localStorage, files, status, selectedFile, folderName,
                inflight, issued, started, error, lastRefresh>>

----------------------------------------------------------------------------
(* Bounds *)

MaxPathLen == 5

MaxCredLen == 4

----------------------------------------------------------------------------
(* Strings *)

SeqsUpTo(S, n) == UNION {[1..k -> S] : k \in 0..n}

StartsWith(s, p) == Len(s) >= Len(p) /\ SubSeq(s, 1, Len(p)) = p

DropFirst(s, n) == SubSeq(s, n + 1, Len(s))

PathTokens == {"/", "api", "foo"}

\* request paths: they start with a slash and have no empty segment
Paths ==
    {p \in SeqsUpTo(PathTokens, MaxPathLen) :
        /\ Len(p) >= 1 /\ p[1] = "/"
        /\ \A i \in 1..(Len(p) - 1) : ~(p[i] = "/" /\ p[i + 1] = "/")}

Bytes == {"U", "P", ":"}

Methods == {"OPTIONS", "GET", "PROPFIND"}

\* the methods that change what the engine stores
WriteMethods == {"PUT", "MKCOL", "DELETE"}

Schemes == {"Basic", "Bearer"}

Host == "gateway.example"

Origins == {"", "https://a.example", "https://b.example"}

----------------------------------------------------------------------------
(* Authorization header values.  kind "absent": no header; "empty": the    *)
(* header is the empty string; "schemeOnly": one word, no space; "full":   *)
(* a scheme word, a space and a base64 word that decodes to bytes.         *)

NoAuth == [kind |-> "absent", scheme |-> "", bytes |-> <<>>]

EmptyAuth == [kind |-> "empty", scheme |-> "", bytes |-> <<>>]

SchemeOnly(s) == [kind |-> "schemeOnly", scheme |-> s, bytes |-> <<>>]

FullAuth(s, b) == [kind |-> "full", scheme |-> s, bytes |-> b]

ValidBasic == FullAuth("Basic", <<"U", ":", "P">>)

WrongBasic == FullAuth("Basic", <<"U", ":", "U">>)

\* texts with a byte above 0x7f
HighBitTexts == {<<"Uhi", ":", "P">>, <<"U", ":", "Phi">>}

CredTexts == SeqsUpTo(Bytes, MaxCredLen) \cup HighBitTexts

AuthHeaders ==
    {NoAuth, EmptyAuth}
        \cup {SchemeOnly(s) : s \in Schemes}
        \cup {FullAuth(s, b) : s \in Schemes, b \in CredTexts}

\* req.headers.authorization is falsy when absent or ''
HeaderTruthy(a) == a.kind \in {"schemeOnly", "full"}

\* Buffer#toString('ascii') clears the high bit of every byte
AsciiByte(b) == IF b = "Uhi" THEN "U" ELSE IF b = "Phi" THEN "P" ELSE b

ToAscii(bs) == [i \in 1..Len(bs) |-> AsciiByte(bs[i])]

\* String.prototype.split(':'): the fields between the colons
RECURSIVE SplitColon(_)
SplitColon(s) ==
    IF \A i \in 1..Len(s) : s[i] # ":"
    THEN <<s>>
    ELSE LET k == CHOOSE i \in 1..Len(s) :
                      s[i] = ":" /\ \A j \in 1..(i - 1) : s[j] # ":"
         IN  <<SubSeq(s, 1, k - 1)>> \o SplitColon(DropFirst(s, k))

Undefined == <<"undefined">>

\* const [username, password] = credentials.split(':')
Username(text) == SplitColon(text)[1]

Password(text) ==
    IF Len(SplitColon(text)) >= 2 THEN SplitColon(text)[2] ELSE Undefined

\* authHeader.split(' ')[1] exists
HasSecondWord(a) == a.kind = "full"

\* Buffer.from(base64Credentials, 'base64').toString('ascii')
DecodeCredentials(a) == ToAscii(a.bytes)

\* username === 'WebDavDemo' && password === 'WebDavPassword'
CredentialsMatch(a) ==
    /\ Username(DecodeCredentials(a)) = <<"U">>
    /\ Password(DecodeCredentials(a)) = <<"P">>

----------------------------------------------------------------------------
(* Express mounting at '/api' and the rewrite of the WebDAV mount *)

Mount == <<"/", "api">>

\* the layer's regexp /^\/api\/?(?=\/|$)/i (PathTokens has one spelling of
\* "api", so the case-insensitive flag has nothing to act on)
MountMatches(p) ==
    StartsWith(p, Mount) /\ (Len(p) = Len(Mount) \/ p[Len(Mount) + 1] = "/")

\* length of the text the layer's regexp matched (\/? is greedy)
MountRemoved(p) ==
    IF /\ Len(p) > Len(Mount)
       /\ p[Len(Mount) + 1] = "/"
       /\ (Len(p) = Len(Mount) + 1 \/ p[Len(Mount) + 2] = "/")
    THEN Len(Mount) + 1
    ELSE Len(Mount)

\* req.url inside a handler mounted at '/api' (trim_prefix)
MountedUrl(p) ==
    LET rest == DropFirst(p, MountRemoved(p))
    IN  IF rest = <<>> \/ rest[1] # "/" THEN <<"/">> \o rest ELSE rest

\* req.url.replace(/^\/api/, '')
ReplaceApi(u) == IF StartsWith(u, Mount) THEN DropFirst(u, Len(Mount)) ELSE u

\* req.url.replace(/^\/api/, '') || '/'
RewriteUrl(u) == IF ReplaceApi(u) = <<>> THEN <<"/">> ELSE ReplaceApi(u)

----------------------------------------------------------------------------
(* Requests and responses *)

Request(m, p, o, a) == [method |-> m, path |-> p, origin |-> o, auth |-> a]

NoReq == Request("", <<>>, "", NoAuth)

\* requests that vary the Authorization header
AuthFocus ==
    {Request(m, p, "", a) :
        m \in {"OPTIONS", "GET"}, p \in {<<"/", "api", "/", "foo">>},
        a \in AuthHeaders}

\* requests that vary the path and the method
PathFocus ==
    {Request(m, p, "", a) :
        m \in Methods, p \in Paths, a \in {NoAuth, ValidBasic}}

\* requests that vary the Origin header
OriginFocus ==
    {Request(m, p, o, a) :
        m \in {"OPTIONS", "GET"},
        p \in {<<"/", "api", "/", "foo">>, <<"/", "foo">>},
        o \in Origins,
        a \in {NoAuth, ValidBasic, WrongBasic, SchemeOnly("Basic")}}

\* requests that write: under the mount, under the mount twice, at the
\* mount itself and outside the mount
WriteFocus ==
    {Request(m, p, "", a) :
        m \in WriteMethods,
        p \in {<<"/", "api", "/", "a">>, <<"/", "api">>, <<"/", "a">>},
        a \in {NoAuth, ValidBasic}}

Requests == AuthFocus \cup PathFocus \cup OriginFocus \cup WriteFocus

\* no file chosen in the file input
NoFile == [name |-> "", size |-> 0]

\* localStorage.getItem('webdav_credentials') === null
NoCredentials == <<>>

NoRes == [status |-> 0, by |-> "", acao |-> "", cors |-> FALSE,
          wwwAuthenticate |-> FALSE]

\* files of the React build under public/
PublicFiles == {<<"/">>, <<"/", "foo">>}

----------------------------------------------------------------------------
(* The embedded WebDAV engine over the physical file system rooted at the  *)
(* data directory.  The store maps each name the root directory can hold   *)
(* to what is stored under it.                                             *)

StoreNames == {"a", "B"}

Absent == [kind |-> "absent", size |-> 0]

File(n) == [kind |-> "file", size |-> n]

Dir == [kind |-> "dir", size |-> 0]

EmptyStore == [n \in StoreNames |-> Absent]

\* the item of the root directory an engine path names ("" when it names
\* the root itself or nothing the root can hold)
ItemOf(u) ==
    IF Len(u) = 2 /\ u[1] = "/" /\ u[2] \in StoreNames THEN u[2] ELSE ""

\* the number of bytes of the request body
BodySize(r) == IF "size" \in DOMAIN r THEN r.size ELSE 1

\* the engine executes method m on path u with a body of size bytes
EngineExecute(m, u, size, st) ==
    LET n == ItemOf(u) IN
    CASE m = "PROPFIND" ->
            [status |-> IF u = <<"/">> \/ (n # "" /\ st[n] # Absent)
                        THEN 207 ELSE 404,
             store |-> st]
      [] m = "PUT" ->
            IF n = "" \/ st[n].kind = "dir"
            THEN [status |-> 405, store |-> st]
            ELSE [status |-> IF st[n] = Absent THEN 201 ELSE 200,
                  store |-> [st EXCEPT ![n] = File(size)]]
      [] m = "MKCOL" ->
            IF n = "" \/ st[n] # Absent
            THEN [status |-> 405, store |-> st]
            ELSE [status |-> 201, store |-> [st EXCEPT ![n] = Dir]]
      [] m = "DELETE" ->
            IF n = "" THEN [status |-> 403, store |-> st]
            ELSE IF st[n] = Absent THEN [status |-> 404, store |-> st]
            ELSE [status |-> 200, store |-> [st EXCEPT ![n] = Absent]]
      [] OTHER ->
            [status |-> IF n # "" /\ st[n].kind = "file" THEN 200 ELSE 404,
             store |-> st]

\* httpAuthentication: the engine authenticates the request itself and
\* may refuse a header that is not Basic WebDavDemo:WebDavPassword
EngineOutcomes(r, u, st) ==
    {EngineExecute(r.method, u, BodySize(r), st)}
        \cup (IF r.auth = ValidBasic THEN {}
              ELSE {[status |-> 401, store |-> st]})

WatchedHeaders == {NoAuth, ValidBasic}

----------------------------------------------------------------------------
(* Start-up *)

Init ==
    /\ pc = "checkDataDir"
    /\ dataDirExists \in BOOLEAN
    /\ createdDataDir = FALSE
    /\ NODE_ENV \in {"production", "development"}
    /\ engine = "absent"
    /\ req = NoReq
    /\ url = <<>>
    /\ stage = "idle"
    /\ res = NoRes
    /\ console = <<>>
    /\ thrown = FALSE
    /\ engineUrl = <<>>
    /\ firstDecision = [h \in WatchedHeaders |-> "none"]
    /\ firstAcao = "none"
    /\ store \in (IF dataDirExists
                  THEN {EmptyStore, [EmptyStore EXCEPT !["a"] = File(1)]}
                  ELSE {EmptyStore})
    /\ clientEnv = "production"
    /\ host = Host
    /\ isAuthenticated = FALSE
    /\ defaultAuthorization = NoAuth
    /\ localStorage = NoCredentials
    /\ files = <<>>
    /\ status = ""
    /\ selectedFile = NoFile
    /\ folderName = ""
    /\ inflight = {}
    /\ issued = 0
    /\ started = 0
    /\ error = ""
    /\ lastRefresh = 0

requestVars == <<req, url, stage, res, console, thrown, engineUrl,
                 firstDecision, firstAcao>>

\* a start-up that never creates the directory
CheckDataDir_NoMkdir ==
    /\ pc = "checkDataDir"
    /\ pc' = "newServer"
    /\ UNCHANGED <<dataDirExists, createdDataDir, engine, NODE_ENV>>
    /\ UNCHANGED <<requestVars, store, clientVars>>

\* if (!fs.existsSync(dataDir))
CheckDataDir ==
    /\ pc = "checkDataDir"
    /\ pc' = IF dataDirExists THEN "newServer" ELSE "mkdir"
    /\ UNCHANGED <<dataDirExists, createdDataDir, engine, NODE_ENV>>
    /\ UNCHANGED <<requestVars, store, clientVars>>

\* fs.mkdirSync(dataDir, { recursive: true }): creates it, or throws and
\* the process ends
MkdirDataDir ==
    /\ pc = "mkdir"
    /\ \/ dataDirExists' = TRUE /\ createdDataDir' = TRUE /\ pc' = "newServer"
       \/ UNCHANGED <<dataDirExists, createdDataDir>> /\ pc' = "crashed"
    /\ UNCHANGED <<engine, NODE_ENV>>
    /\ UNCHANGED <<requestVars, store, clientVars>>

\* new webdav.WebDAVServer({ rootFileSystem: new PhysicalFileSystem(dataDir) })
NewServer ==
    /\ pc = "newServer"
    /\ engine' = "constructed"
    /\ pc' = "start"
    /\ UNCHANGED <<dataDirExists, createdDataDir, NODE_ENV>>
    /\ UNCHANGED <<requestVars, store, clientVars>>

\* server.start(...)
StartServer ==
    /\ pc = "start"
    /\ engine' = "started"
    /\ pc' = "listen"
    /\ UNCHANGED <<dataDirExists, createdDataDir, NODE_ENV>>
    /\ UNCHANGED <<requestVars, store, clientVars>>

\* app.listen(port, ...)
Listen ==
    /\ pc = "listen"
    /\ pc' = "running"
    /\ UNCHANGED <<dataDirExists, createdDataDir, engine, NODE_ENV>>
    /\ UNCHANGED <<requestVars, store, clientVars>>

----------------------------------------------------------------------------
(* The middleware chain *)

Log(line) == console' = Append(console, line)

\* a request enters the chain
Arrive ==
    /\ pc = "running"
    /\ stage = "idle"
    /\ \E r \in Requests :
          /\ req' = r
          /\ url' = r.path
    /\ stage' = "cors"
    /\ res' = NoRes
    /\ console' = <<>>
    /\ thrown' = FALSE
    /\ engineUrl' = <<>>
    /\ UNCHANGED <<firstDecision, firstAcao>>
    /\ UNCHANGED <<startupVars, store, clientVars>>

\* req.headers.origin || `https://${req.headers.host}`
AllowOrigin(r) == IF r.origin # "" THEN r.origin ELSE "https://" \o Host

\* the CORS middleware without the OPTIONS short-circuit
CorsMiddleware_NoShortCircuit ==
    /\ stage = "cors"
    /\ Log("origin")
    /\ firstAcao' = IF firstAcao = "none" THEN AllowOrigin(req) ELSE firstAcao
    /\ res' = [res EXCEPT !.acao = AllowOrigin(req), !.cors = TRUE]
    /\ stage' = "logging"
    /\ UNCHANGED <<req, url, thrown, engineUrl, firstDecision>>
    /\ UNCHANGED <<startupVars, store, clientVars>>

\* app.use((req, res, next) => { ...CORS... })
CorsMiddleware ==
    /\ stage = "cors"
    /\ Log("origin")
    /\ firstAcao' = IF firstAcao = "none" THEN AllowOrigin(req) ELSE firstAcao
    /\ IF req.method = "OPTIONS"
       THEN /\ res' = [res EXCEPT !.acao = AllowOrigin(req), !.cors = TRUE,
                                  !.status = 200, !.by = "cors"]
            /\ stage' = "done"
       ELSE /\ res' = [res EXCEPT !.acao = AllowOrigin(req), !.cors = TRUE]
            /\ stage' = "logging"
    /\ UNCHANGED <<req, url, thrown, engineUrl, firstDecision>>
    /\ UNCHANGED <<startupVars, store, clientVars>>

\* a logging middleware that logs only requests carrying credentials
LoggingMiddleware_OnlyWithAuth ==
    /\ stage = "logging"
    /\ console' = console
                    \o (IF HeaderTruthy(req.auth)
                        THEN <<"methodUrl", "headers", "authPresent">>
                        ELSE <<>>)
    /\ stage' = "auth"
    /\ UNCHANGED <<req, url, res, thrown, engineUrl, firstDecision, firstAcao>>
    /\ UNCHANGED <<startupVars, store, clientVars>>

\* app.use((req, res, next) => { ...logging... })
LoggingMiddleware ==
    /\ stage = "logging"
    /\ console' = console \o <<"methodUrl", "headers">>
                    \o (IF HeaderTruthy(req.auth) THEN <<"authPresent">>
                        ELSE <<>>)
    /\ stage' = "auth"
    /\ UNCHANGED <<req, url, res, thrown, engineUrl, firstDecision, firstAcao>>
    /\ UNCHANGED <<startupVars, store, clientVars>>

\* an authentication that remembers an earlier successful login
AuthDecision_Session(r) ==
    IF \E h \in WatchedHeaders : firstDecision[h] = "next" THEN "next"
    ELSE IF ~HeaderTruthy(r.auth) THEN "401"
    ELSE IF ~HasSecondWord(r.auth) THEN "throw"
    ELSE IF CredentialsMatch(r.auth) THEN "next"
    ELSE "401"

\* an authentication that lets a header without a second word pass
AuthDecision_NoThrow(r) ==
    IF ~HeaderTruthy(r.auth) THEN "401"
    ELSE IF ~HasSecondWord(r.auth) THEN "next"
    ELSE IF CredentialsMatch(r.auth) THEN "next"
    ELSE "401"

\* what the authentication middleware does with a request it is mounted for
AuthDecision(r) ==
    IF ~HeaderTruthy(r.auth) THEN "401"
    ELSE IF ~HasSecondWord(r.auth) THEN "throw"
    ELSE IF CredentialsMatch(r.auth) THEN "next"
    ELSE "401"

\* a gateway that serves the UI whatever NODE_ENV is
AfterAuth_AlwaysStatic == "static"

\* the layer after the authentication middleware
AfterAuth == IF NODE_ENV = "production" THEN "static" ELSE "webdav"

Remember(r, d) ==
    IF r.auth \in WatchedHeaders /\ firstDecision[r.auth] = "none"
    THEN [firstDecision EXCEPT ![r.auth] = d]
    ELSE firstDecision

\* an authentication middleware whose 401 branches lack the return, so
\* the request is answered and handed on as well
AuthMiddleware_NoReturn ==
    /\ stage = "auth"
    /\ IF ~MountMatches(req.path)
       THEN /\ stage' = AfterAuth
            /\ UNCHANGED <<res, console, thrown, firstDecision>>
       ELSE LET d == AuthDecision(req) IN
            /\ firstDecision' = Remember(req, d)
            /\ CASE d = "401" ->
                     /\ Log(IF HeaderTruthy(req.auth) THEN "authFailed"
                            ELSE "noAuthHeader")
                     /\ res' = [res EXCEPT !.status = 401, !.by = "auth"]
                     /\ stage' = AfterAuth
                     /\ UNCHANGED thrown
                 [] d = "throw" ->
                     /\ thrown' = TRUE
                     /\ stage' = "final"
                     /\ UNCHANGED <<res, console>>
                 [] d = "next" ->
                     /\ Log("authSuccessful")
                     /\ stage' = AfterAuth
                     /\ UNCHANGED <<res, thrown>>
    /\ UNCHANGED <<req, url, engineUrl, firstAcao>>
    /\ UNCHANGED <<startupVars, store, clientVars>>

\* app.use('/api', (req, res, next) => { ...authentication... })
AuthMiddleware ==
    /\ stage = "auth"
    /\ IF ~MountMatches(req.path)
       THEN /\ stage' = AfterAuth
            /\ UNCHANGED <<res, console, thrown, firstDecision>>
       ELSE LET d == AuthDecision(req) IN
            /\ firstDecision' = Remember(req, d)
            /\ CASE d = "401" ->
                     /\ Log(IF HeaderTruthy(req.auth) THEN "authFailed"
                            ELSE "noAuthHeader")
                     /\ res' = [res EXCEPT !.status = 401, !.by = "auth"]
                     /\ stage' = "done"
                     /\ UNCHANGED thrown
                 [] d = "throw" ->
                     /\ thrown' = TRUE
                     /\ stage' = "final"
                     /\ UNCHANGED <<res, console>>
                 [] d = "next" ->
                     /\ Log("authSuccessful")
                     /\ stage' = AfterAuth
                     /\ UNCHANGED <<res, thrown>>
    /\ UNCHANGED <<req, url, engineUrl, firstAcao>>
    /\ UNCHANGED <<startupVars, store, clientVars>>

\* app.use(express.static(path.join(__dirname, 'public')))
StaticMiddleware ==
    /\ stage = "static"
    /\ IF req.method = "GET" /\ req.path \in PublicFiles
       THEN /\ res' = [res EXCEPT !.status = 200, !.by = "static"]
            /\ stage' = "done"
       ELSE /\ stage' = "webdav"
            /\ UNCHANGED res
    /\ UNCHANGED <<req, url, console, thrown, engineUrl,
                   firstDecision, firstAcao>>
    /\ UNCHANGED <<startupVars, store, clientVars>>

\* app.use('/api', (req, res) => { ...server.executeRequest(req, res) })
WebdavMount ==
    /\ stage = "webdav"
    /\ IF MountMatches(req.path)
       THEN /\ url' = RewriteUrl(MountedUrl(req.path))
            /\ engineUrl' = RewriteUrl(MountedUrl(req.path))
            /\ Log("webdavRequest")
            /\ \E out \in EngineOutcomes(req, RewriteUrl(MountedUrl(req.path)),
                                          store) :
                  /\ res' = [res EXCEPT !.status = out.status,
                                        !.by = "engine",
                                        !.wwwAuthenticate = (out.status = 401)]
                  /\ store' = out.store
            /\ stage' = "done"
       ELSE /\ stage' = IF NODE_ENV = "production" THEN "spa" ELSE "final"
            /\ UNCHANGED <<url, engineUrl, console, res, store>>
    /\ UNCHANGED <<req, thrown, firstDecision, firstAcao>>
    /\ UNCHANGED <<startupVars, clientVars>>

\* app.get('*', (req, res) => res.sendFile(... 'index.html'))
ReactFallback ==
    /\ stage = "spa"
    /\ IF req.method = "GET"
       THEN /\ res' = [res EXCEPT !.status = 200, !.by = "spa"]
            /\ stage' = "done"
       ELSE /\ stage' = "final"
            /\ UNCHANGED res
    /\ UNCHANGED <<req, url, console, thrown, engineUrl,
                   firstDecision, firstAcao>>
    /\ UNCHANGED <<startupVars, store, clientVars>>

\* Express's final handler: 500 for an error passed to next, 404 otherwise
FinalHandler ==
    /\ stage = "final"
    /\ res' = [res EXCEPT !.status = IF thrown THEN 500 ELSE 404,
                          !.by = "final"]
    /\ stage' = "done"
    /\ UNCHANGED <<req, url, console, thrown, engineUrl,
                   firstDecision, firstAcao>>
    /\ UNCHANGED <<startupVars, store, clientVars>>

\* the response has been sent; the request and response objects are dropped
Close ==
    /\ stage = "done"
    /\ stage' = "idle"
    /\ req' = NoReq
    /\ url' = <<>>
    /\ res' = NoRes
    /\ console' = <<>>
    /\ thrown' = FALSE
    /\ engineUrl' = <<>>
    /\ UNCHANGED <<firstDecision, firstAcao>>
    /\ UNCHANGED <<startupVars, store, clientVars>>

Next ==
    \/ CheckDataDir
    \/ MkdirDataDir
    \/ NewServer
    \/ StartServer
    \/ Listen
    \/ Arrive
    \/ CorsMiddleware
    \/ LoggingMiddleware
    \/ AuthMiddleware
    \/ StaticMiddleware
    \/ WebdavMount
    \/ ReactFallback
    \/ FinalHandler
    \/ Close

Spec == Init /\ [][Next]_vars

----------------------------------------------------------------------------
(* The gateway and the engine as the client sees them: one request is      *)
(* answered by the whole middleware chain at once.                         *)

GatewayOutcomes(r, st) ==
    IF r.method = "OPTIONS" THEN {[status |-> 200, store |-> st]}
    ELSE IF MountMatches(r.path) /\ AuthDecision(r) = "401"
    THEN {[status |-> 401, store |-> st]}
    ELSE IF MountMatches(r.path) /\ AuthDecision(r) = "throw"
    THEN {[status |-> 500, store |-> st]}
    ELSE IF AfterAuth = "static" /\ r.method = "GET" /\ r.path \in PublicFiles
    THEN {[status |-> 200, store |-> st]}
    ELSE IF MountMatches(r.path)
    THEN EngineOutcomes(r, RewriteUrl(MountedUrl(r.path)), st)
    ELSE IF NODE_ENV = "production" /\ r.method = "GET"
    THEN {[status |-> 200, store |-> st]}
    ELSE {[status |-> 404, store |-> st]}

----------------------------------------------------------------------------
(* The React client, webdav-client/src/App.js.  An asynchronous handler is *)
(* one action up to the request it awaits and one action for the rest,     *)
(* taken when the response has arrived.                                    *)

MaxStarted == 1

LocalHost == "localhost:8080"

\* where the client is built for and served from: the development build
\* talks to http://localhost:8080, the production build to its own origin
Deployments ==
    {[env |-> "development", host |-> LocalHost],
     [env |-> "production", host |-> LocalHost],
     [env |-> "production", host |-> Host]}

\* the files the user can choose and the folder names the user can type
UploadFiles == {[name |-> "a", size |-> 2], [name |-> "B", size |-> 0]}

FolderNames == {"a"}

\* what the user can type into the login form: WebDavDemo with
\* WebDavPassword, and WebDavDemo with a wrong password
EnteredCredentials == {<<"U", ":", "P">>, <<"U", ":", "U">>}

\* `Basic ${base64Credentials}`
BasicHeader(c) == FullAuth("Basic", c)

\* what the data directory may hold when the page is loaded
InitStores ==
    {EmptyStore, [EmptyStore EXCEPT !["B"] = File(0)],
     [EmptyStore EXCEPT !["a"] = Dir]}

BaseURL == IF clientEnv = "production" THEN <<"/", "api">> ELSE <<>>

\* axios: baseURL joined with the relative url; the path on the server
CombineURLs(base, rel) == base \o rel

NoResponse == [status |-> 0, store |-> EmptyStore]

\* a request of the client that is in flight.  op is the handler awaiting
\* it; name, size and cred are the handler's locals; after names the write
\* a list refresh follows; alone tells that no other request of the client
\* has been in flight since the handler's first request was sent.
ClientRequest(op, m, rel, a, n, sz, c, aft, al) ==
    [id |-> issued + 1, op |-> op, method |-> m,
     path |-> CombineURLs(BaseURL, rel), auth |-> a,
     name |-> n, size |-> sz, cred |-> c, after |-> aft, alone |-> al,
     resp |-> NoResponse]

\* the PROPFIND of fetchFiles, with the default headers of the moment
ListRequest(n, sz, aft, al) ==
    ClientRequest("fetchFiles", "PROPFIND", <<"/">>, defaultAuthorization,
                  n, sz, NoCredentials, aft, al)

\* a handler called by the user sends a request
Send(r) ==
    /\ inflight' = {[q EXCEPT !.alone = FALSE] : q \in inflight}
                      \cup {[r EXCEPT !.alone = (inflight = {})]}
    /\ issued' = issued + 1
    /\ started' = started + 1

\* a handler that was awaiting r goes on and sends q
Continue(r, q) ==
    /\ inflight' = (inflight \ {r}) \cup {[q EXCEPT !.alone = r.alone]}
    /\ issued' = issued + 1
    /\ UNCHANGED started

\* a handler that was awaiting r returns
Return(r) ==
    /\ inflight' = inflight \ {r}
    /\ UNCHANGED <<issued, started>>

Arrived(r) == r \in inflight /\ r.resp.status # 0

\* axios resolves for a 2xx status and rejects otherwise
Resolved(r) == r.resp.status >= 200 /\ r.resp.status < 300

gatewayVars == <<startupVars, requestVars>>

----------------------------------------------------------------------------
(* fetchFiles: the multistatus answer and the list made from it *)

\* D:getcontentlength, present for files only
NoLength == [present |-> FALSE, value |-> 0]

Length(n) == [present |-> TRUE, value |-> n]

\* one D:response: the href http://<host>/<item>, where the item of the
\* root collection is ""
DavResponse(h, n, it) ==
    [href |-> <<"http://", h, "/", n>>,
     displayname |-> n,
     collection |-> it.kind = "dir",
     getcontentlength |-> IF it.kind = "file" THEN Length(it.size)
                          ELSE NoLength]

\* the answer to PROPFIND / with Depth 1: the root collection and its
\* members
MultiStatus(st, h) ==
    {DavResponse(h, "", Dir)}
        \cup {DavResponse(h, n, st[n]) : n \in {m \in StoreNames : st[m] # Absent}}

\* the orders in which the responses can be listed
Orders(S) ==
    {s \in [1..Cardinality(S) -> S] :
        \A i, j \in 1..Cardinality(S) : i # j => s[i] # s[j]}

\* if (href === 'http://localhost:8080/') continue;
SkipRoot(d) == d.href = <<"http://", LocalHost, "/", "">>

\* contentLength ? parseInt(contentLength) : 0
ParseSize_Zero(cl) == 0

ParseSize(cl) == IF cl.present THEN cl.value ELSE 0

\* the entry pushed to fileList
FileEntry(d) ==
    [name |-> d.displayname, isDirectory |-> d.collection,
     size |-> ParseSize(d.getcontentlength)]

RECURSIVE FileList(_)
FileList(ds) ==
    IF ds = <<>> THEN <<>>
    ELSE IF SkipRoot(ds[1]) THEN FileList(Tail(ds))
    ELSE <<FileEntry(ds[1])>> \o FileList(Tail(ds))

\* the names without their case
LowerCase(n) == IF n = "B" THEN "b" ELSE n

\* the place of a character in the collation order and in the order of
\* the UTF-16 code units: "" first; then a before b, and B before a
Collation(n) == CASE n = "" -> 0 [] n = "a" -> 1 [] n = "b" -> 2 [] n = "B" -> 3

CodeUnit(n) == CASE n = "" -> 0 [] n = "B" -> 1 [] n = "a" -> 2 [] n = "b" -> 3

Sign(d) == IF d < 0 THEN -1 ELSE IF d > 0 THEN 1 ELSE 0

\* a comparison by code units, as the < operator on strings
LocaleCompare_CodeUnits(x, y) == Sign(CodeUnit(x) - CodeUnit(y))

\* String.prototype.localeCompare: the letters decide; names with the same
\* letters are ordered lower case first
LocaleCompare(x, y) ==
    IF LowerCase(x) # LowerCase(y)
    THEN Sign(Collation(LowerCase(x)) - Collation(LowerCase(y)))
    ELSE Sign(Collation(x) - Collation(y))

\* the comparator of fileList.sort
Compare(a, b) ==
    IF a.isDirectory = b.isDirectory THEN LocaleCompare(a.name, b.name)
    ELSE IF a.isDirectory THEN -1 ELSE 1

RECURSIVE Insert(_, _)
Insert(e, s) ==
    IF s = <<>> THEN <<e>>
    ELSE IF Compare(e, s[1]) <= 0 THEN <<e>> \o s
    ELSE <<s[1]>> \o Insert(e, Tail(s))

\* Array.prototype.sort with the comparator
RECURSIVE SortFiles(_)
SortFiles(s) == IF s = <<>> THEN <<>> ELSE Insert(s[1], SortFiles(Tail(s)))

\* the sorted lists fetchFiles can make of an answer
SortedFiles(r) ==
    {SortFiles(FileList(ds)) : ds \in Orders(MultiStatus(r.resp.store, host))}

----------------------------------------------------------------------------
(* The client's handlers *)

clientInputs == <<clientEnv, host, selectedFile, folderName>>

\* the page is loaded against a running gateway
InitClient ==
    /\ pc = "running"
    /\ dataDirExists = TRUE
    /\ createdDataDir = FALSE
    /\ engine = "started"
    /\ req = NoReq
    /\ url = <<>>
    /\ stage = "idle"
    /\ res = NoRes
    /\ console = <<>>
    /\ thrown = FALSE
    /\ engineUrl = <<>>
    /\ firstDecision = [h \in WatchedHeaders |-> "none"]
    /\ firstAcao = "none"
    /\ store \in InitStores
    /\ \E d \in Deployments :
          /\ clientEnv = d.env
          /\ NODE_ENV = d.env
          /\ host = d.host
    /\ isAuthenticated = FALSE
    /\ defaultAuthorization = NoAuth
    /\ localStorage \in {NoCredentials, <<"U", ":", "P">>}
    /\ files = <<>>
    /\ status = ""
    /\ selectedFile = NoFile
    /\ folderName = ""
    /\ inflight = {}
    /\ issued = 0
    /\ started = 0
    /\ error = ""
    /\ lastRefresh = 0

\* the two effects run when the component is mounted: fetchFiles(), then
\* the check of the stored credentials
PageLoad ==
    /\ issued = 0
    /\ LET list == ListRequest("", 0, "", localStorage = NoCredentials)
           probe == [ClientRequest("restore", "PROPFIND", <<"/">>,
                                   BasicHeader(localStorage), "", 0,
                                   localStorage, "", FALSE)
                        EXCEPT !.id = 2]
       IN  IF localStorage = NoCredentials
           THEN /\ inflight' = {list}
                /\ issued' = 1
                /\ UNCHANGED defaultAuthorization
           ELSE /\ defaultAuthorization' = BasicHeader(localStorage)
                /\ inflight' = {list, probe}
                /\ issued' = 2
    /\ UNCHANGED <<isAuthenticated, localStorage, files, status, started>>
    /\ UNCHANGED <<clientInputs, error, lastRefresh, gatewayVars, store>>

\* the user may start an operation (list, upload, create folder, delete,
\* login, logout): the page is loaded and the bound on the operations the
\* user starts allows it
UserMayAct == issued > 0 /\ started < MaxStarted

\* onChange of the file input
HandleFileSelect ==
    /\ issued > 0 /\ isAuthenticated
    /\ \E f \in UploadFiles : selectedFile' = f
    /\ UNCHANGED <<clientEnv, host, folderName, isAuthenticated,
                   defaultAuthorization, localStorage, files, status,
                   inflight, issued, started, error, lastRefresh>>
    /\ UNCHANGED <<gatewayVars, store>>

\* onChange of the folder name input
SetFolderName ==
    /\ issued > 0 /\ isAuthenticated
    /\ \E n \in FolderNames \cup {""} : folderName' = n
    /\ UNCHANGED <<clientEnv, host, selectedFile, isAuthenticated,
                   defaultAuthorization, localStorage, files, status,
                   inflight, issued, started, error, lastRefresh>>
    /\ UNCHANGED <<gatewayVars, store>>

\* handleListFolder: fetchFiles() up to its await
HandleListFolder ==
    /\ UserMayAct /\ isAuthenticated
    /\ Send(ListRequest("", 0, "", FALSE))
    /\ UNCHANGED <<isAuthenticated, defaultAuthorization, localStorage,
                   files, status>>
    /\ UNCHANGED <<clientInputs, error, lastRefresh, gatewayVars, store>>

\* uploadFile up to the PUT it awaits (the FileReader reads the chosen
\* file locally; its onload callback, which sends the PUT, is taken in the
\* same step)
UploadFile ==
    /\ issued > 0 /\ isAuthenticated
    /\ IF selectedFile = NoFile
       THEN /\ status' = "Please select a file first"
            /\ UNCHANGED <<inflight, issued, started>>
       ELSE /\ started < MaxStarted
            /\ Send(ClientRequest("uploadFile", "PUT",
                                  <<"/", selectedFile.name>>,
                                  defaultAuthorization, selectedFile.name,
                                  selectedFile.size, NoCredentials, "",
                                  FALSE))
            /\ UNCHANGED status
    /\ UNCHANGED <<isAuthenticated, defaultAuthorization, localStorage, files>>
    /\ UNCHANGED <<clientInputs, error, lastRefresh, gatewayVars, store>>

\* createFolder up to the MKCOL it awaits
CreateFolder ==
    /\ issued > 0 /\ isAuthenticated
    /\ IF folderName = ""
       THEN /\ status' = "Please enter a folder name"
            /\ UNCHANGED <<inflight, issued, started>>
       ELSE /\ started < MaxStarted
            /\ Send(ClientRequest("createFolder", "MKCOL",
                                  <<"/", folderName>>, defaultAuthorization,
                                  folderName, 0, NoCredentials, "", FALSE))
            /\ UNCHANGED status
    /\ UNCHANGED <<isAuthenticated, defaultAuthorization, localStorage, files>>
    /\ UNCHANGED <<clientInputs, error, lastRefresh, gatewayVars, store>>

\* the url of deleteItem: '/' + name
ItemUrl(n) == IF n = "" THEN <<"/">> ELSE <<"/", n>>

\* deleteItem(file.name), from the Delete button of a row, up to the
\* DELETE it awaits
DeleteItem ==
    /\ UserMayAct /\ isAuthenticated
    /\ \E i \in 1..Len(files) :
          Send(ClientRequest("deleteItem", "DELETE", ItemUrl(files[i].name),
                             defaultAuthorization, files[i].name, 0,
                             NoCredentials, "", FALSE))
    /\ UNCHANGED <<isAuthenticated, defaultAuthorization, localStorage,
                   files, status>>
    /\ UNCHANGED <<clientInputs, error, lastRefresh, gatewayVars, store>>

\* handleLogin(username, password) up to the probe it awaits
HandleLogin(c) ==
    /\ defaultAuthorization' = BasicHeader(c)
    /\ Send(ClientRequest("handleLogin", "PROPFIND", <<"/">>,
                          BasicHeader(c), "", 0, c, "", FALSE))

\* handleSubmit of the Login form (components/Login.js): with an empty
\* field it sets the form's error; otherwise it calls onLogin, which is
\* handleLogin, without awaiting it.  The promise handleLogin returns is
\* dropped, so nothing of handleSubmit runs after the probe.
HandleSubmit ==
    /\ UserMayAct /\ ~isAuthenticated
    /\ \E c \in EnteredCredentials \cup {NoCredentials} :
          IF c = NoCredentials
          THEN /\ error' = "Please enter both username and password"
               /\ started' = started + 1
               /\ UNCHANGED <<defaultAuthorization, inflight, issued>>
          ELSE /\ HandleLogin(c)
               /\ UNCHANGED error
    /\ UNCHANGED <<isAuthenticated, localStorage, files, status>>
    /\ UNCHANGED <<clientInputs, lastRefresh, gatewayVars, store>>

\* handleLogout; the Login form is mounted again, with its initial state
HandleLogout ==
    /\ UserMayAct /\ isAuthenticated
    /\ isAuthenticated' = FALSE
    /\ files' = <<>>
    /\ started' = started + 1
    /\ error' = ""
    /\ UNCHANGED <<defaultAuthorization, localStorage, status, inflight,
                   issued>>
    /\ UNCHANGED <<clientInputs, lastRefresh, gatewayVars, store>>

\* the gateway and the engine answer a request of the client
GatewayAnswers ==
    /\ pc = "running"
    /\ \E r \in inflight :
          /\ r.resp.status = 0
          /\ \E out \in GatewayOutcomes(r, store) :
                /\ store' = out.store
                /\ inflight' =
                      (inflight \ {r}) \cup
                      {[r EXCEPT !.resp =
                            [status |-> out.status,
                             store |-> IF r.method = "PROPFIND"
                                          /\ out.status = 207
                                       THEN out.store ELSE EmptyStore]]}
    /\ UNCHANGED <<isAuthenticated, defaultAuthorization, localStorage,
                   files, status, issued,
                   started>>
    /\ UNCHANGED <<clientInputs, error, lastRefresh, gatewayVars>>

\* fetchFiles after its await.  lastRefresh records, for the properties,
\* the most recently issued fetchFiles among those that have returned.
FetchFilesReturns ==
    \E r \in inflight :
       /\ Arrived(r) /\ r.op = "fetchFiles"
       /\ IF Resolved(r)
          THEN \E sortedFiles \in SortedFiles(r) :
                  IF Len(sortedFiles) > 0
                  THEN /\ files' = sortedFiles
                       /\ status' = "Files fetched successfully"
                  ELSE /\ status' = "No files or folders found"
                       /\ UNCHANGED files
          ELSE /\ status' = "Server error"
               /\ UNCHANGED files
       /\ Return(r)
       /\ lastRefresh' = IF r.id > lastRefresh THEN r.id ELSE lastRefresh
       /\ UNCHANGED <<isAuthenticated, defaultAuthorization, localStorage>>
       /\ UNCHANGED <<clientInputs, error, gatewayVars, store>>

\* uploadFile after the PUT
UploadFileReturns ==
    \E r \in inflight :
       /\ Arrived(r) /\ r.op = "uploadFile"
       /\ IF Resolved(r)
          THEN /\ status' = "File uploaded successfully!"
               /\ Continue(r, ListRequest(r.name, r.size, "uploadFile", FALSE))
          ELSE /\ status' = "Upload failed"
               /\ Return(r)
       /\ UNCHANGED <<isAuthenticated, defaultAuthorization, localStorage,
                      files>>
       /\ UNCHANGED <<clientInputs, error, lastRefresh, gatewayVars, store>>

\* a createFolder that clears the folder name whatever the MKCOL's outcome
CreateFolderReturns_AlwaysClears ==
    \E r \in inflight :
       /\ Arrived(r) /\ r.op = "createFolder"
       /\ folderName' = ""
       /\ IF Resolved(r)
          THEN /\ status' = "Folder created successfully!"
               /\ Continue(r, ListRequest(r.name, 0, "createFolder", FALSE))
          ELSE /\ status' = "Folder creation error"
               /\ Return(r)
       /\ UNCHANGED <<isAuthenticated, defaultAuthorization, localStorage,
                      files>>
       /\ UNCHANGED <<clientEnv, host, selectedFile, error, lastRefresh,
                      gatewayVars, store>>

\* createFolder after the MKCOL
CreateFolderReturns ==
    \E r \in inflight :
       /\ Arrived(r) /\ r.op = "createFolder"
       /\ IF Resolved(r)
          THEN /\ status' = "Folder created successfully!"
               /\ folderName' = ""
               /\ Continue(r, ListRequest(r.name, 0, "createFolder", FALSE))
          ELSE /\ status' = "Folder creation error"
               /\ UNCHANGED folderName
               /\ Return(r)
       /\ UNCHANGED <<isAuthenticated, defaultAuthorization, localStorage,
                      files>>
       /\ UNCHANGED <<clientEnv, host, selectedFile, error, lastRefresh,
                      gatewayVars, store>>

\* a deleteItem that refreshes the list also when the DELETE failed
DeleteItemReturns_Refresh ==
    \E r \in inflight :
       /\ Arrived(r) /\ r.op = "deleteItem"
       /\ status' = IF Resolved(r) THEN r.name \o " deleted successfully!"
                    ELSE "Delete error"
       /\ Continue(r, ListRequest(r.name, 0, "deleteItem", FALSE))
       /\ UNCHANGED <<isAuthenticated, defaultAuthorization, localStorage,
                      files>>
       /\ UNCHANGED <<clientInputs, error, lastRefresh, gatewayVars, store>>

\* deleteItem after the DELETE
DeleteItemReturns ==
    \E r \in inflight :
       /\ Arrived(r) /\ r.op = "deleteItem"
       /\ IF Resolved(r)
          THEN /\ status' = r.name \o " deleted successfully!"
               /\ Continue(r, ListRequest(r.name, 0, "deleteItem", FALSE))
          ELSE /\ status' = "Delete error"
               /\ Return(r)
       /\ UNCHANGED <<isAuthenticated, defaultAuthorization, localStorage,
                      files>>
       /\ UNCHANGED <<clientInputs, error, lastRefresh, gatewayVars, store>>

\* a handleLogin whose catch block cleans nothing up
HandleLoginReturns_NoCleanup ==
    \E r \in inflight :
       /\ Arrived(r) /\ r.op = "handleLogin"
       /\ IF r.resp.status \in {207, 200}
          THEN /\ isAuthenticated' = TRUE
               /\ localStorage' = r.cred
               /\ Continue(r, ListRequest("", 0, "handleLogin", FALSE))
          ELSE /\ Return(r)
               /\ UNCHANGED <<isAuthenticated, localStorage>>
       /\ UNCHANGED <<defaultAuthorization, files, status>>
       /\ UNCHANGED <<clientInputs, error, lastRefresh, gatewayVars, store>>

\* handleLogin after the probe, up to the fetchFiles it awaits
HandleLoginReturns ==
    \E r \in inflight :
       /\ Arrived(r) /\ r.op = "handleLogin"
       /\ IF r.resp.status \in {207, 200}
          THEN /\ isAuthenticated' = TRUE
               /\ localStorage' = r.cred
               /\ Continue(r, ListRequest("", 0, "handleLogin", FALSE))
               /\ UNCHANGED defaultAuthorization
          ELSE /\ defaultAuthorization' = NoAuth
               /\ localStorage' = NoCredentials
               /\ Return(r)
               /\ UNCHANGED isAuthenticated
       /\ UNCHANGED <<files, status>>
       /\ UNCHANGED <<clientInputs, error, lastRefresh, gatewayVars, store>>

\* a stored-credentials effect whose catch callback cleans nothing up
RestoreReturns_NoCleanup ==
    \E r \in inflight :
       /\ Arrived(r) /\ r.op = "restore"
       /\ IF r.resp.status \in {207, 200}
          THEN /\ isAuthenticated' = TRUE
               /\ Continue(r, ListRequest("", 0, "restore", FALSE))
          ELSE /\ Return(r)
               /\ UNCHANGED isAuthenticated
       /\ UNCHANGED <<defaultAuthorization, localStorage, files, status>>
       /\ UNCHANGED <<clientInputs, error, lastRefresh, gatewayVars, store>>

\* the stored-credentials effect after its probe
RestoreReturns ==
    \E r \in inflight :
       /\ Arrived(r) /\ r.op = "restore"
       /\ IF r.resp.status \in {207, 200}
          THEN /\ isAuthenticated' = TRUE
               /\ Continue(r, ListRequest("", 0, "restore", FALSE))
               /\ UNCHANGED <<defaultAuthorization, localStorage>>
          ELSE IF Resolved(r)
          THEN /\ Return(r)
               /\ UNCHANGED <<isAuthenticated, defaultAuthorization,
                              localStorage>>
          ELSE /\ localStorage' = NoCredentials
               /\ defaultAuthorization' = NoAuth
               /\ Return(r)
               /\ UNCHANGED isAuthenticated
       /\ UNCHANGED <<files, status>>
       /\ UNCHANGED <<clientInputs, error, lastRefresh, gatewayVars, store>>

NextClient ==
    \/ PageLoad
    \/ HandleFileSelect
    \/ SetFolderName
    \/ HandleListFolder
    \/ UploadFile
    \/ CreateFolder
    \/ DeleteItem
    \/ HandleSubmit
    \/ HandleLogout
    \/ GatewayAnswers
    \/ FetchFilesReturns
    \/ UploadFileReturns
    \/ CreateFolderReturns
    \/ DeleteItemReturns
    \/ HandleLoginReturns
    \/ RestoreReturns

SpecClient == InitClient /\ [][NextClient]_vars

----------------------------------------------------------------------------
(* Properties *)

Responded == stage = "done"

Protected == MountMatches(req.path) /\ req.method # "OPTIONS"

EngineInvoked == res.by = "engine"

Logged(line) == \E i \in 1..Len(console) : console[i] = line

\* HTTP Basic credentials that are exactly WebDavDemo / WebDavPassword
ExactCredentials(a) ==
    a.kind = "full" /\ a.scheme = "Basic" /\ a.bytes = <<"U", ":", "P">>

\* the text after the mount prefix
Suffix(p) == DropFirst(p, Len(Mount))

\* a path with repeated and trailing slashes removed: the item it names
RECURSIVE Canon(_)
Canon(s) ==
    IF s = <<>> THEN <<>>
    ELSE IF s[1] = "/" /\ (Len(s) = 1 \/ s[2] = "/") THEN Canon(Tail(s))
    ELSE <<s[1]>> \o Canon(Tail(s))

\* the authentication outcome of the request that has just been answered
CurrentDecision ==
    IF thrown THEN "throw" ELSE IF res.by = "auth" THEN "401" ELSE "next"

\* C1: every request under /api without an Authorization header, or with
\* credentials other than the hardcoded pair, is answered 401 and the
\* response carries a WWW-Authenticate challenge (stated here for the
\* requests that pass the CORS middleware, i.e. every method but OPTIONS).
C1_Unauthorized401WithChallenge ==
    (Responded /\ Protected /\ ~ExactCredentials(req.auth))
        => (res.status = 401 /\ res.wwwAuthenticate)

\* C2: the engine is invoked only for requests that carry HTTP Basic
\* credentials with username exactly WebDavDemo and password exactly
\* WebDavPassword.
C2_EngineOnlyWithExactCredentials ==
    EngineInvoked => ExactCredentials(req.auth)

\* C3: an OPTIONS request is answered 200 by the CORS middleware whatever
\* its path and Authorization header, and is never passed to the
\* authentication middleware or the engine.
C3_OptionsAlways200 ==
    (req.method = "OPTIONS") =>
        /\ stage \in {"cors", "done"}
        /\ ~EngineInvoked /\ engineUrl = <<>> /\ ~thrown
        /\ Responded => (res.status = 200 /\ res.by = "cors")

C3_Witness ==
    /\ Responded /\ req.method = "OPTIONS"
    /\ MountMatches(req.path)
    /\ req.auth = FullAuth("Basic", <<"U", ":", "U">>)
    /\ res.status = 200

\* C4: the engine receives exactly the suffix s of the request path /api s,
\* and '/' when s is empty.
C4_EngineReceivesSuffix ==
    EngineInvoked =>
        engineUrl = (IF Suffix(req.path) = <<>> THEN <<"/">>
                     ELSE Suffix(req.path))

\* C5: requests that name different items under the mount prefix are never
\* forwarded to the engine with paths that name the same item.
C5_MirrorOneToOne ==
    EngineInvoked =>
        \A q \in Paths :
            (MountMatches(q) /\ Canon(Suffix(q)) # Canon(Suffix(req.path)))
                => Canon(RewriteUrl(MountedUrl(q))) # Canon(engineUrl)

\* C6: the outcome of the authentication depends only on the request's own
\* Authorization header: it equals the outcome of the first request that
\* carried the same header, and a request without a header is rejected
\* also after a request that was authenticated.
C6_AuthStateless ==
    (Responded /\ Protected /\ req.auth \in WatchedHeaders) =>
        /\ firstDecision[req.auth] = CurrentDecision
        /\ (req.auth = NoAuth) => (res.status = 401 /\ ~EngineInvoked)

C6_Witness ==
    /\ Responded /\ Protected
    /\ req.auth = NoAuth
    /\ firstDecision[ValidBasic] = "next"
    /\ res.status = 401

\* C7: every response carries the CORS headers and the same
\* Access-Control-Allow-Origin value, whatever the Origin header of the
\* request.
C7_FixedAllowOrigin ==
    Responded => (res.cors /\ res.acao = firstAcao)

\* C8: a request whose Authorization header has no second word makes the
\* authentication middleware throw; it is answered 500 by the final handler
\* and never reaches the engine, and every answered request has a status.
C8_ThrowAnswered500 ==
    /\ thrown => (stage \in {"final", "done"} /\ ~EngineInvoked)
    /\ Responded => res.status # 0
    /\ (Responded /\ Protected /\ req.auth.kind = "schemeOnly") =>
            (thrown /\ res.status = 500 /\ res.by = "final")

C8_Witness ==
    /\ Responded /\ thrown
    /\ req.auth = SchemeOnly("Basic")
    /\ res.status = 500
    /\ engineUrl = <<>>

\* C9: the data directory exists whenever the engine has been constructed
\* or started.
C9_DataDirBeforeEngine ==
    (engine # "absent" \/ pc \in {"start", "listen", "running"})
        => dataDirExists

C9_Witness == engine = "started" /\ createdDataDir /\ dataDirExists

\* C10 as stated: for every request, whatever its method and outcome, the
\* method and URL have been logged when the response is sent.
C10_EveryRequestLogged ==
    Responded => Logged("methodUrl")

\* C10 amended: when the response is sent, the method and URL have been
\* logged exactly for the requests whose method is not OPTIONS.
C10_NonOptionsLogged ==
    Responded => (Logged("methodUrl") <=> req.method # "OPTIONS")

C10_Witness ==
    /\ Responded /\ EngineInvoked
    /\ req.method = "PROPFIND"
    /\ Logged("methodUrl")

\* C11: stored items change only in the step in which the gateway hands a
\* PUT, MKCOL or DELETE request under the mount to the engine, after the
\* authentication let it pass and before any answer was given; a request
\* the gateway answers itself (401, or 200 for OPTIONS) leaves the stored
\* items unchanged.
C11_StoreChangesOnlyByForwardedWrites ==
    [][store' # store =>
          /\ stage = "webdav" /\ MountMatches(req.path)
          /\ req.method \in WriteMethods
          /\ res.status = 0
          /\ Logged("authSuccessful")
          /\ res'.by = "engine"]_vars

C11_Witness ==
    /\ Responded /\ Protected
    /\ req.method = "DELETE"
    /\ res.status = 401 /\ res.by = "auth"
    /\ store["a"] # Absent

----------------------------------------------------------------------------
(* Properties of the client *)

\* the handler awaiting r takes the answer in this step
Completes(r) ==
    /\ r \in inflight /\ r.resp.status # 0
    /\ \A q \in inflight' : q.id # r.id

Ids(S) == {q.id : q \in S}

Displayed(fs) == {fs[i] : i \in 1..Len(fs)}

DisplayedNames(fs) == {fs[i].name : i \in 1..Len(fs)}

StoredNames(st) == {n \in StoreNames : st[n] # Absent}

WriteOps == {"uploadFile", "createFolder", "deleteItem"}

\* the status messages of App.js that report a success and a failure
SuccessMessages ==
    {"Files fetched successfully", "No files or folders found",
     "File uploaded successfully!", "Folder created successfully!"}
        \cup {n \o " deleted successfully!" : n \in StoreNames \cup {""}}

FailureMessages ==
    {"Server error", "No response from server. Is the server running?",
     "Error", "Upload failed", "Failed to read file", "Upload error",
     "Folder creation error", "Delete error"}

\* C12: handleLogin sends one PROPFIND to the root that carries the entered
\* credentials.  The credential is stored and isAuthenticated becomes true
\* only when a probe was answered 200 or 207, and then handleLogin leaves
\* the default Authorization header in place (it is the entered credential
\* when no other request overlapped the login).  When the probe fails,
\* handleLogin leaves no stored credential and no default Authorization
\* header, and isAuthenticated as it was.
C12_LoginContract ==
    [][/\ \A r \in inflight' :
              (r.op = "handleLogin" /\ r.id \notin Ids(inflight)) =>
                  /\ r.method = "PROPFIND"
                  /\ r.path = CombineURLs(BaseURL, <<"/">>)
                  /\ r.auth = BasicHeader(r.cred)
                  /\ issued' = issued + 1
       /\ \A r \in inflight :
              (Completes(r) /\ r.op = "handleLogin") =>
                  IF r.resp.status \in {200, 207}
                  THEN /\ isAuthenticated'
                       /\ localStorage' = r.cred
                       /\ defaultAuthorization' = defaultAuthorization
                       /\ r.alone => defaultAuthorization' = BasicHeader(r.cred)
                  ELSE /\ localStorage' = NoCredentials
                       /\ defaultAuthorization' = NoAuth
                       /\ isAuthenticated' = isAuthenticated
       /\ (isAuthenticated' /\ ~isAuthenticated) =>
              \E r \in inflight :
                  /\ Completes(r) /\ r.op \in {"handleLogin", "restore"}
                  /\ r.resp.status \in {200, 207}
       /\ (localStorage' # localStorage /\ localStorage' # NoCredentials) =>
              \E r \in inflight :
                  /\ Completes(r) /\ r.op = "handleLogin"
                  /\ r.resp.status \in {200, 207}]_vars

C12_Witness ==
    /\ isAuthenticated
    /\ localStorage = <<"U", ":", "P">>
    /\ defaultAuthorization = ValidBasic
    /\ \E r \in inflight :
          r.op = "fetchFiles" /\ r.after = "handleLogin" /\ r.alone

\* C13: when the list refresh that follows a successful DELETE completes
\* (no other request of the client overlapping the two), the displayed
\* table has no entry with the deleted item's name.
C13_DeletedItemNotDisplayed ==
    [][\A r \in inflight :
          (/\ Completes(r) /\ r.op = "fetchFiles"
           /\ r.after = "deleteItem" /\ r.alone /\ Resolved(r))
              => r.name \notin DisplayedNames(files')]_vars

\* C14: an upload is one PUT of the whole file to /<file name>, and when
\* the list refresh that follows a successful upload completes (no other
\* request of the client overlapping the two), the displayed list has a
\* file entry with that name whose size is the number of bytes uploaded.
C14_UploadedFileListed ==
    [][/\ \A r \in inflight' :
              r.op = "uploadFile" =>
                  /\ r.method = "PUT"
                  /\ r.path = CombineURLs(BaseURL, <<"/", r.name>>)
                  /\ [name |-> r.name, size |-> r.size] \in UploadFiles
       /\ \A r \in inflight :
              (/\ Completes(r) /\ r.op = "fetchFiles"
               /\ r.after = "uploadFile" /\ r.alone)
                  => [name |-> r.name, isDirectory |-> FALSE,
                      size |-> r.size] \in Displayed(files')]_vars

C14_Witness ==
    /\ inflight = {}
    /\ status = "Files fetched successfully"
    /\ store["a"] = File(2)
    /\ [name |-> "a", isDirectory |-> FALSE, size |-> 2] \in Displayed(files)

\* C15: the list made by fetchFiles has every directory before every file,
\* and the directories and the files are each in the order of their names
\* compared without case.
C15_ListOrdered ==
    \A i, j \in 1..Len(files) :
        i < j =>
            /\ files[i].isDirectory \/ ~files[j].isDirectory
            /\ (files[i].isDirectory = files[j].isDirectory) =>
                   Collation(LowerCase(files[i].name))
                       <= Collation(LowerCase(files[j].name))

C15_Witness ==
    \E i \in 1..(Len(files) - 1) :
        /\ ~files[i].isDirectory /\ ~files[i + 1].isDirectory
        /\ files[i].name = "a" /\ files[i + 1].name = "B"

\* C16: when a list refresh completes successfully, the displayed entries
\* are exactly the items of the root directory that the answer listed; the
\* root collection is not among them.
C16_DisplayedAreRootItems ==
    [][\A r \in inflight :
          (Completes(r) /\ r.op = "fetchFiles" /\ Resolved(r))
              => DisplayedNames(files') = StoredNames(r.resp.store)]_vars

\* C17: when a list, upload, create-folder, delete or login request
\* completes, the status message is one that reports a success if it
\* succeeded and one that reports a failure if it failed; a logout leaves
\* a status message too.
C17_EveryOperationSetsStatus ==
    [][/\ \A r \in inflight :
              (Completes(r) /\ r.op # "restore") =>
                  IF Resolved(r) THEN status' \in SuccessMessages
                  ELSE status' \in FailureMessages
       /\ (isAuthenticated /\ ~isAuthenticated') =>
              status' \in SuccessMessages]_vars

\* C18: when the PUT, MKCOL or DELETE of an action fails, the client
\* issues no further request; an action sends its request once; and the
\* gateway answers every request once, changing the stored items only
\* while answering a PUT, MKCOL or DELETE.
C18_NoRetries ==
    [][/\ \A r \in inflight :
              (Completes(r) /\ r.op \in WriteOps /\ ~Resolved(r)) =>
                  /\ issued' = issued
                  /\ Ids(inflight') = Ids(inflight) \ {r.id}
       /\ \A r \in inflight' :
              (r.op \in WriteOps /\ r.id \notin Ids(inflight)) =>
                  /\ issued' = issued + 1
                  /\ Ids(inflight') = Ids(inflight) \cup {r.id}
       /\ \A r \in inflight :
              r.resp.status # 0 =>
                  \A q \in inflight' : q.id = r.id => q.resp = r.resp
       /\ store' # store =>
              \E r \in inflight :
                  /\ r.resp.status = 0 /\ r.method \in WriteMethods
                  /\ \E q \in inflight' : q.id = r.id /\ q.resp.status # 0]_vars

C18_Witness ==
    /\ inflight = {}
    /\ status \in {"Upload failed", "Folder creation error", "Delete error"}

\* C19: at no moment are two requests of the client in flight together.
C19_OneRequestInFlight == Cardinality(inflight) <= 1

\* C20: the path on the server of every request the client issues begins
\* with the mount prefix /api.
C20_RequestsUnderMount ==
    \A r \in inflight : StartsWith(r.path, Mount) /\ MountMatches(r.path)

\* C21: a page loaded with a credential in localStorage installs it as the
\* default Authorization header and sends a PROPFIND probe that carries it.
\* When the probe is answered 200 or 207 isAuthenticated becomes true and
\* the credential stays; with any other answer isAuthenticated stays as it
\* was, and when the probe fails the stored credential and the default
\* Authorization header are both removed.
C21_SessionRestore ==
    [][/\ (issued = 0 /\ issued' # 0 /\ localStorage # NoCredentials) =>
              /\ defaultAuthorization' = BasicHeader(localStorage)
              /\ \E r \in inflight' :
                     /\ r.op = "restore" /\ r.method = "PROPFIND"
                     /\ r.path = CombineURLs(BaseURL, <<"/">>)
                     /\ r.auth = BasicHeader(localStorage)
       /\ (issued = 0 /\ issued' # 0 /\ localStorage = NoCredentials) =>
              /\ defaultAuthorization' = defaultAuthorization
              /\ \A r \in inflight' : r.op # "restore"
       /\ \A r \in inflight :
              (Completes(r) /\ r.op = "restore") =>
                  IF r.resp.status \in {200, 207}
                  THEN /\ isAuthenticated'
                       /\ localStorage' = localStorage
                       /\ defaultAuthorization' = defaultAuthorization
                  ELSE /\ isAuthenticated' = isAuthenticated
                       /\ ~Resolved(r) =>
                              /\ localStorage' = NoCredentials
                              /\ defaultAuthorization' = NoAuth]_vars

\* the probe of a restored session has failed
C21_Witness ==
    /\ issued = 2 /\ started = 0
    /\ \A r \in inflight : r.op # "restore"
    /\ ~isAuthenticated
    /\ localStorage = NoCredentials
    /\ defaultAuthorization = NoAuth

\* C22: a GET for a path outside the mount prefix is answered, when
\* NODE_ENV is 'production', with the bundled UI: status 200 from the static
\* middleware when the path names a file of the build and from the
\* index.html fallback otherwise, and the authentication middleware has
\* decided nothing about it.  When NODE_ENV is not 'production' no handler
\* of the gateway answers it: Express's final handler sends 404.
C22_UiOutsideMount ==
    (Responded /\ req.method = "GET" /\ ~MountMatches(req.path)) =>
        IF NODE_ENV = "production"
        THEN /\ res.status = 200
             /\ res.by = IF req.path \in PublicFiles THEN "static" ELSE "spa"
             /\ ~Logged("authSuccessful")
             /\ ~Logged("authFailed")
             /\ ~Logged("noAuthHeader")
             /\ ~thrown
        ELSE /\ res.by = "final"
             /\ res.status = 404

\* index.html was served to a request without credentials
C22_Witness ==
    /\ Responded /\ req.method = "GET" /\ ~MountMatches(req.path)
    /\ NODE_ENV = "production"
    /\ req.auth = NoAuth
    /\ res.by = "spa"

\* C23: the step in which the user logs out leaves no default
\* Authorization header on the client's HTTP instance and no credential in
\* localStorage.
C23_LogoutDropsCredential ==
    [][(isAuthenticated /\ ~isAuthenticated') =>
           /\ defaultAuthorization' = NoAuth
           /\ localStorage' = NoCredentials]_vars

\* C24: when handleLogin fails (its probe is answered with a status other
\* than 200 and 207, or not at all), the Login form shows the error message
\* 'Login failed. Please check your credentials.'
C24_LoginFailureShown ==
    [][\A r \in inflight :
           (Completes(r) /\ r.op = "handleLogin"
               /\ r.resp.status \notin {200, 207}) =>
               error' = "Login failed. Please check your credentials."]_vars

\* C25: in every reachable state of the client, isAuthenticated is true
\* only while a default Authorization header is installed on the client's
\* HTTP instance.
C25_AuthenticatedHasHeader ==
    isAuthenticated => defaultAuthorization # NoAuth

\* C26: the response of a list refresh never changes the displayed list
\* when a refresh issued after it has already returned.
C26_OlderRefreshNeverOverwrites ==
    [][\A r \in inflight :
           (Completes(r) /\ r.op = "fetchFiles" /\ r.id < lastRefresh) =>
               files' = files]_vars

\* what the middleware chain has done with the request: answered it 200 in
\* the CORS middleware, answered it 401 in the authentication middleware,
\* handed it to the engine, served it a file of the UI
Outcomes ==
    {o \in {"options", "401", "engine", "ui"} :
        \/ o = "options" /\ res.by = "cors"
        \/ o = "401" /\ (Logged("authFailed") \/ Logged("noAuthHeader"))
        \/ o = "engine" /\ Logged("webdavRequest")
        \/ o = "ui" /\ res.by \in {"static", "spa"}}

\* C27 as stated: every request that has been answered got exactly one of
\* the four outcomes: 200 for OPTIONS, 401, hand-off to the engine, UI.
C27_ExactlyOneOutcome ==
    Responded => Cardinality(Outcomes) = 1

\* C27: a request never gets more than one of the four outcomes (200 for
\* OPTIONS, 401, hand-off to the engine, UI); in particular it is never both
\* answered 401 and handed to the engine.  An answered request got none of
\* them exactly when Express's final handler answered it (404 or 500).
C27_AtMostOneOutcome ==
    /\ Cardinality(Outcomes) <= 1
    /\ Responded => (Outcomes = {} <=> res.by = "final")
    /\ Responded /\ res.by = "final" => res.status \in {404, 500}

C27_Witness ==
    /\ Responded
    /\ Outcomes = {"401"}
    /\ res.status = 401
    /\ engineUrl = <<>>

\* C28: the path the gateway hands to the engine begins with '/'.
C28_EnginePathRooted ==
    EngineInvoked => (engineUrl # <<>> /\ engineUrl[1] = "/")

\* C29: uploadFile with no file selected and createFolder with an empty
\* folder name send no request, leave the displayed list as it is and set
\* the status to 'Please select a file first' and 'Please enter a folder
\* name'; no PUT is sent without a file and no MKCOL without a name.
\* createFolder leaves the folder-name field as it is when it sends the
\* MKCOL and when the MKCOL fails, and clears it when the MKCOL succeeded.
C29_InputGuards ==
    [][/\ (UploadFile /\ selectedFile = NoFile) =>
              /\ inflight' = inflight /\ issued' = issued
              /\ files' = files
              /\ status' = "Please select a file first"
       /\ (CreateFolder /\ folderName = "") =>
              /\ inflight' = inflight /\ issued' = issued
              /\ files' = files
              /\ status' = "Please enter a folder name"
       /\ \A r \in inflight' :
              (r.id \notin Ids(inflight) /\ r.op = "uploadFile") =>
                  selectedFile # NoFile
       /\ \A r \in inflight' :
              (r.id \notin Ids(inflight) /\ r.op = "createFolder") =>
                  /\ folderName # ""
                  /\ folderName' = folderName
       /\ \A r \in inflight :
              (Completes(r) /\ r.op = "createFolder") =>
                  folderName' = IF Resolved(r) THEN "" ELSE folderName]_vars

\* the guard of createFolder has refused an empty folder name
C29_Witness ==
    /\ isAuthenticated
    /\ folderName = ""
    /\ status = "Please enter a folder name"
    /\ inflight = {}

====
